---- MODULE Spec2Model ----
(***************************************************************************)
(* A model of the XML2RFC v2 rendering backend (xml2rfcv2.go): the Xml2    *)
(* renderer object, its fields and the methods the walker calls on it.     *)
(*                                                                         *)
(* The output buffer (bytes.Buffer) is a sequence of tokens, one token per *)
(* out.WriteString / out.Write call of the code; Truncate(marker) cuts the *)
(* sequence back to the length it had when the marker was taken.           *)
(***************************************************************************)
EXTENDS Integers, Sequences, FiniteSets, TLC

\* ------------------------------------------------------------------ bounds
\* Calls the walker makes in one render.
MaxCalls == 4
\* Deepest heading level the walker hands to Header (levels are 1..MaxLevel).
MaxLevel == 3
\* Attribute sets the parser may enqueue (their ids are 1..MaxAttr).
MaxAttr == 2
\* Calls in a render whose calls range over every list flag combination, or
\* over every citation map.
MaxWideCalls == 3
\* Calls in a render made of headings and the footer.
MaxOutlineCalls == 5
\* Calls in a render that mixes every renderer.
MaxAllCalls == 3
\* Items of a definition list.
MaxItems == 3
\* Blocks rendered before a definition list.
MaxBlocksBefore == 1
\* Calls in a render of one HTML comment.
MaxCommentCalls == 1
\* Longest run of plain characters before the colon of a comment.
MaxFill == 21

\* --------------------------------------------------------------- constants
\* flags&XML_STANDALONE: the option bit tested by the renderer.
XML_STANDALONE == 1
\* docLevel values.  A new Xml2 has docLevel 0 (the zero value of int).
DOC_FRONT_MATTER == 0
DOC_MAIN_MATTER == 1
DOC_BACK_MATTER == 2

\* The characters of a comment that are searched for the colon (`l = 20`).
SourceWindow == 20

Matters == {DOC_FRONT_MATTER, DOC_MAIN_MATTER, DOC_BACK_MATTER}

\* ------------------------------------------------------------------ tokens
\* One write to the buffer: the tag written, the rendered attributes that
\* were spliced into it (ids of the attribute sets), and a string argument
\* (anchor, file name, ...).
Tok(tag, attrs, arg) == [tag |-> tag, attrs |-> attrs, arg |-> arg]
T(tag) == Tok(tag, <<>>, "")

SectionClose == T("</section>")
SectionOpen(id) == Tok("<section", <<>>, id)

\* n copies of a token, none when n <= 0 (the loops `for i := n; i > 0; i--`).
Repeat(tok, n) == [i \in 1..n |-> tok]

\* Number of tokens of buf whose tag is tag.
RECURSIVE CountTag(_, _)
CountTag(buf, tag) ==
    IF buf = <<>> THEN 0
    ELSE (IF Head(buf).tag = tag THEN 1 ELSE 0) + CountTag(Tail(buf), tag)

\* A content callback (func() bool): what it writes and what it returns.
Callback(writes, ret) == [writes |-> writes, ret |-> ret]

\* The title of a heading as the walker renders it.
HeaderTexts == {Callback(<<T("text")>>, TRUE)}

\* ------------------------------------------------------------------- state
VARIABLES
    flags,          \* Xml2.flags
    sectionLevel,   \* Xml2.sectionLevel
    docLevel,       \* Xml2.docLevel
    ial,            \* Xml2.ial: the pending attribute sets
    titleBlock,     \* Xml2.titleBlock (nil until TitleBlockTOML sets it)
    out,            \* the bytes.Buffer every method writes to
    last,           \* history: the last call, its arguments and the state before it
    hist            \* history: the names of the calls made so far

vars == <<flags, sectionLevel, docLevel, ial, titleBlock, out, last, hist>>

\* flags & XML_STANDALONE != 0
Standalone(f) == (f \div XML_STANDALONE) % 2 = 1

\* The record kept of a call: its name, the state before it, its arguments.
NoCall ==
    [op |-> "new", out0 |-> <<>>, sl0 |-> 0, dl0 |-> 0, ial0 |-> <<>>,
     level |-> 0, matter |-> 0, first |-> FALSE, text |-> [writes |-> <<>>, ret |-> FALSE],
     lflags |-> {}, start |-> 0, cits |-> <<>>, levels |-> <<>>, skipped |-> FALSE,
     bytes |-> <<>>, payload |-> <<>>]

\* levels (the levels of the Header calls so far) and skipped (one of them
\* was deeper than sectionLevel + 1 when it was made) carry over from call to
\* call.
Call(op, args) ==
    [op |-> op, out0 |-> out, sl0 |-> sectionLevel, dl0 |-> docLevel, ial0 |-> ial]
        @@ args @@ [levels |-> last.levels, skipped |-> last.skipped] @@ NoCall

\* The nil *title of a new renderer.
NilTitle == [nil |-> TRUE, Author |-> <<>>, Keyword |-> <<>>]

\* Xml2Renderer(flags): every field but flags has its zero value.
Init ==
    /\ flags \in {0, XML_STANDALONE}
    /\ sectionLevel = 0
    /\ docLevel = 0
    /\ ial = <<>>
    /\ titleBlock = NilTitle
    /\ out = <<>>
    /\ last = NoCall
    /\ hist = <<>>

\* ---------------------------------------------------- the attribute queue
\* renderIAL: the attributes of the drained sets, in order, as they are
\* spliced into an opening tag; nothing for an empty queue.
renderIAL(i) == i

\* ------------------------------------------------------------------ Header
\* Header opening its section without closing any.
HeaderOut_NoClose(buf, sl, level, id, text) ==
    buf \o <<SectionOpen(id)>> \o <<T(" title=")>> \o text.writes \o <<T(">")>>

\* Header closing one section too few.
HeaderOut_OffByOne(buf, sl, level, id, text) ==
    LET closes == IF level <= sl THEN Repeat(SectionClose, sl - level)
                  ELSE <<>>
    IN  buf \o closes \o <<SectionOpen(id)>> \o <<T(" title=")>>
            \o text.writes \o <<T(">")>>

\* The buffer after Header: the close markers, the open marker, the title
\* the callback writes, the end of the tag.
HeaderOut(buf, sl, level, id, text) ==
    LET closes == IF level <= sl THEN Repeat(SectionClose, sl - level + 1)
                  ELSE <<>>
    IN  buf \o closes \o <<SectionOpen(id)>> \o <<T(" title=")>>
            \o text.writes \o <<T(">")>>

Header(text, level, id) ==
    /\ out' = HeaderOut(out, sectionLevel, level, id, text)
    /\ ial' = <<>>
    /\ sectionLevel' = level
    /\ last' = Call("Header", [level |-> level, text |-> text,
                               levels |-> Append(last.levels, level),
                               skipped |-> last.skipped \/ level > sectionLevel + 1])
    /\ hist' = Append(hist, "Header")
    /\ UNCHANGED <<flags, docLevel, titleBlock>>

DoHeader == \E text \in HeaderTexts, level \in 1..MaxLevel : Header(text, level, "id")

\* ---------------------------------------------------------- DocumentMatter
\* The flush loop running once more than there are open sections.
FlushSections_Inclusive(buf, sl) == buf \o Repeat(SectionClose, sl + 1)

\* The loop `for i := sectionLevel; i > 0; i--` that closes the open sections.
FlushSections(buf, sl) == buf \o Repeat(SectionClose, sl)

\* The markers DocumentMatter writes for its argument (the switch on matter).
MatterMarkers(matter) ==
    CASE matter = DOC_FRONT_MATTER -> <<>>
      [] matter = DOC_MAIN_MATTER -> <<T("</front>"), T("<middle>")>>
      [] matter = DOC_BACK_MATTER -> <<T("</middle>"), T("<back>")>>
      [] OTHER -> <<>>

DocumentMatterOut(buf, sl, matter) == FlushSections(buf, sl) \o MatterMarkers(matter)

\* The loop decrements sectionLevel once per marker written.
FlushedLevel(sl) == IF sl > 0 THEN 0 ELSE sl

DocumentMatter(matter) ==
    /\ out' = DocumentMatterOut(out, sectionLevel, matter)
    /\ sectionLevel' = FlushedLevel(sectionLevel)
    /\ docLevel' = matter
    /\ last' = Call("DocumentMatter", [matter |-> matter])
    /\ hist' = Append(hist, "DocumentMatter")
    /\ UNCHANGED <<flags, ial, titleBlock>>

DoDocumentMatter == \E matter \in Matters : DocumentMatter(matter)

\* -------------------------------------------------------------- References
\* The citations the walker recorded: a map from the target to the citation
\* (its link, its kind 'i' or 'n', its file name, "" when it has none).
CiteKeys == {"RFC2119", "I-D.foo"}
Citation_(link, typ, filename) == [link |-> link, typ |-> typ, filename |-> filename]

\* referenceFile(c): the file name derived from the citation's target.
referenceFile(c) ==
    CASE c.link = "RFC2119" -> "reference.RFC.2119.xml"
      [] c.link = "I-D.foo" -> "reference.I-D.foo.xml"
      [] OTHER -> "reference.xml"

\* The derived file name for every citation.
IncludeFile_AlwaysDerived(c) == referenceFile(c)

\* f := string(c.filename); if f == "" { f = referenceFile(c) }
IncludeFile(c) == IF c.filename = "" THEN referenceFile(c) ELSE c.filename

\* One `for _, c := range citations` loop of a group: the include markers of
\* the citations of kind typ, in the order ord in which the map is ranged.
RECURSIVE Includes(_, _, _)
Includes(citations, ord, typ) ==
    IF ord = <<>> THEN <<>>
    ELSE LET c == citations[Head(ord)]
         IN  (IF c.typ = typ THEN <<Tok("<?rfc include", <<>>, IncludeFile(c))>>
              ELSE <<>>)
             \o Includes(citations, Tail(ord), typ)

\* refi, refn: the citations of a kind.
CountTyp(citations, typ) ==
    Cardinality({k \in DOMAIN citations : citations[k].typ = typ})

\* The closing and opening markers of the forced transition to the back matter.
BackMarkers(dl) ==
    CASE dl = DOC_FRONT_MATTER -> <<T("</front>"), T("<back>")>>
      [] dl = DOC_MAIN_MATTER -> <<T("</middle>"), T("<back>")>>
      [] OTHER -> <<>>

\* The two reference containers; ordI and ordN are the orders in which the
\* two loops range over the map (Go fixes no order, and none across loops).
\* The reference containers with the normative group in the else branch of
\* the informative one.
ReferenceGroups_ElseIf(citations, ordI, ordN) ==
    LET refi == CountTyp(citations, "i")
        refn == CountTyp(citations, "n")
    IN  IF refi > 0
        THEN <<Tok("<references", <<>>, "Informative References")>>
             \o Includes(citations, ordI, "i") \o <<T("</references>")>>
        ELSE IF refn > 0
        THEN <<Tok("<references", <<>>, "Normative References")>>
             \o Includes(citations, ordN, "n") \o <<T("</references>")>>
        ELSE <<>>

ReferenceGroups(citations, ordI, ordN) ==
    LET refi == CountTyp(citations, "i")
        refn == CountTyp(citations, "n")
    IN  IF refi + refn > 0
        THEN (IF refi > 0
              THEN <<Tok("<references", <<>>, "Informative References")>>
                   \o Includes(citations, ordI, "i") \o <<T("</references>")>>
              ELSE <<>>)
             \o
             (IF refn > 0
              THEN <<Tok("<references", <<>>, "Normative References")>>
                   \o Includes(citations, ordN, "n") \o <<T("</references>")>>
              ELSE <<>>)
        ELSE <<>>

ReferencesOut(buf, f, sl, dl, citations, ordI, ordN) ==
    IF ~Standalone(f) THEN buf
    ELSE FlushSections(buf, sl) \o BackMarkers(dl)
         \o ReferenceGroups(citations, ordI, ordN)

\* The orders in which a map with these keys can be ranged.
Orders(keys) ==
    {o \in [1..Cardinality(keys) -> keys] : \A i, j \in DOMAIN o : i # j => o[i] # o[j]}

References(citations, ordI, ordN) ==
    /\ out' = ReferencesOut(out, flags, sectionLevel, docLevel, citations, ordI, ordN)
    /\ sectionLevel' = IF Standalone(flags) THEN FlushedLevel(sectionLevel) ELSE sectionLevel
    /\ docLevel' = IF Standalone(flags) THEN DOC_BACK_MATTER ELSE docLevel
    /\ last' = Call("References", [cits |-> citations])
    /\ hist' = Append(hist, "References")
    /\ UNCHANGED <<flags, ial, titleBlock>>

\* Every citation map over the keys, each citation of either kind, with or
\* without a file name of its own.
CitationMaps(keys) ==
    UNION {[ks -> {"i", "n"} \X {"", "bib.xml"}] : ks \in SUBSET keys}

AsCitations(m) == [k \in DOMAIN m |-> Citation_(k, m[k][1], m[k][2])]

\* ---------------------------------------------------------- DocumentFooter
\* The footer closing the middle whatever the phase is.
FooterMarkers_AssumeMain(dl) ==
    CASE dl = DOC_BACK_MATTER -> <<T("</back>")>>
      [] OTHER -> <<T("</middle>")>>

\* The closing marker of the phase the document ends in.
FooterMarkers(dl) ==
    CASE dl = DOC_FRONT_MATTER -> <<T("</front>")>>
      [] dl = DOC_MAIN_MATTER -> <<T("</middle>")>>
      [] dl = DOC_BACK_MATTER -> <<T("</back>")>>
      [] OTHER -> <<>>

DocumentFooterOut(buf, f, first, sl, dl) ==
    IF ~first \/ ~Standalone(f) THEN buf
    ELSE FlushSections(buf, sl) \o FooterMarkers(dl) \o <<T("</rfc>")>>

DocumentFooter(first) ==
    /\ out' = DocumentFooterOut(out, flags, first, sectionLevel, docLevel)
    /\ sectionLevel' = IF first /\ Standalone(flags) THEN FlushedLevel(sectionLevel)
                       ELSE sectionLevel
    /\ last' = Call("DocumentFooter", [first |-> first])
    /\ hist' = Append(hist, "DocumentFooter")
    /\ UNCHANGED <<flags, docLevel, ial, titleBlock>>

DoDocumentFooter == \E first \in BOOLEAN : DocumentFooter(first)

\* ---------------------------------------------------------- DocumentHeader
DocumentHeaderOut(buf, f, first) ==
    IF ~first \/ ~Standalone(f) THEN buf
    ELSE buf \o <<T("<?xml"), T("<!DOCTYPE rfc")>>

DocumentHeader(first) ==
    /\ out' = DocumentHeaderOut(out, flags, first)
    /\ last' = Call("DocumentHeader", [first |-> first])
    /\ hist' = Append(hist, "DocumentHeader")
    /\ UNCHANGED <<flags, sectionLevel, docLevel, ial, titleBlock>>

DoDocumentHeader == \E first \in BOOLEAN : DocumentHeader(first)

\* ---------------------------------------------------------- TitleBlockTOML
\* A title block: its authors and keywords (the other fields are strings
\* spliced into the tags).
TitleBlocks ==
    {[nil |-> FALSE, Author |-> a, Keyword |-> a] : a \in {<<>>, <<"x">>}}

RECURSIVE AuthorTokens(_)
AuthorTokens(authors) ==
    IF authors = <<>> THEN <<>>
    ELSE <<Tok("<author", <<>>, Head(authors)), T("<organization>"), T("<address>"),
           T("<email>"), T("</address>"), T("</author>")>>
         \o AuthorTokens(Tail(authors))

TitleBlockTOMLOut(buf, f, block) ==
    IF ~Standalone(f) THEN buf
    ELSE buf \o <<T("<rfc"), T("<front>"), T("<title"), T("</title>")>>
             \o AuthorTokens(block.Author)
             \o <<T("<date"), T("<area>"), T("<workgroup>")>>
             \o [i \in 1..Len(block.Keyword) |-> Tok("<keyword>", <<>>, block.Keyword[i])]
             \o <<T("\n")>>

\* The walker renders the title block once, where the document starts: no
\* call but DocumentHeader comes before it.
TitleBlockTOML(block) ==
    /\ titleBlock.nil
    /\ \A k \in DOMAIN hist : hist[k] = "DocumentHeader"
    /\ out' = TitleBlockTOMLOut(out, flags, block)
    /\ titleBlock' = IF Standalone(flags) THEN block ELSE titleBlock
    /\ last' = Call("TitleBlockTOML", [level |-> 0])
    /\ hist' = Append(hist, "TitleBlockTOML")
    /\ UNCHANGED <<flags, sectionLevel, docLevel, ial>>

DoTitleBlockTOML == \E block \in TitleBlocks : TitleBlockTOML(block)

\* ---------------------------------------------------------------- Citation
\* The inline citation marker; both branches write the same tag.
CitationOut(buf, link, title) ==
    IF Len(title) = 0 THEN buf \o <<Tok("<xref", <<>>, link)>>
    ELSE buf \o <<Tok("<xref", <<>>, link)>>

Citation(link, title) ==
    /\ out' = CitationOut(out, link, title)
    /\ last' = Call("Citation", [level |-> 0])
    /\ hist' = Append(hist, "Citation")
    /\ UNCHANGED <<flags, sectionLevel, docLevel, ial, titleBlock>>

DoCitation == \E link \in CiteKeys, title \in {<<>>, <<"t">>} : Citation(link, title)

\* ------------------------------------------------------------------ SetIAL
\* options.ial = append(options.ial, i...)
SetIAL(i) ==
    /\ ial' = ial \o i
    /\ last' = Call("SetIAL", [level |-> 0])
    /\ hist' = Append(hist, "SetIAL")
    /\ UNCHANGED <<flags, sectionLevel, docLevel, titleBlock, out>>

\* The parser enqueues one attribute set at a time; the n-th set enqueued in
\* a render is attribute set n.
NextAttr == Cardinality({k \in DOMAIN hist : hist[k] = "SetIAL"}) + 1

DoSetIAL == NextAttr <= MaxAttr /\ SetIAL(<<NextAttr>>)

\* The rendered body (text []byte) the walker hands to a block renderer.
Body == <<T("text")>>

\* --------------------------------------------------------------- BlockCode
\* Both branches on lang write the same tags.
BlockCodeOut(buf, i, text, lang) ==
    LET s == renderIAL(i)
    IN  buf \o <<Tok("<figure><artwork>", s, "")>> \o text
            \o <<T("</artwork></figure>")>>

BlockCode(text, lang) ==
    /\ out' = BlockCodeOut(out, ial, text, lang)
    /\ ial' = <<>>
    /\ last' = Call("BlockCode", [level |-> 0])
    /\ hist' = Append(hist, "BlockCode")
    /\ UNCHANGED <<flags, sectionLevel, docLevel, titleBlock>>

DoBlockCode == \E lang \in {"", "go"} : BlockCode(Body, lang)

\* -------------------------------------------------------------- BlockQuote
\* renderIAL's result is dropped: the tag is written without it.
BlockQuoteOut(buf, i, text) ==
    buf \o <<T("<t><list style=empty>")>> \o text \o <<T("</list></t>")>>

BlockQuote(text) ==
    /\ out' = BlockQuoteOut(out, ial, text)
    /\ ial' = <<>>
    /\ last' = Call("BlockQuote", [level |-> 0])
    /\ hist' = Append(hist, "BlockQuote")
    /\ UNCHANGED <<flags, sectionLevel, docLevel, titleBlock>>

DoBlockQuote == BlockQuote(Body)

\* ---------------------------------------------------------------- Abstract
AbstractOut(buf, i, text) ==
    LET s == renderIAL(i)
    IN  buf \o <<Tok("<abstract", s, "")>> \o text \o <<T("</abstract>")>>

Abstract(text) ==
    /\ out' = AbstractOut(out, ial, text)
    /\ ial' = <<>>
    /\ last' = Call("Abstract", [level |-> 0])
    /\ hist' = Append(hist, "Abstract")
    /\ UNCHANGED <<flags, sectionLevel, docLevel, titleBlock>>

DoAbstract == Abstract(Body)

\* ------------------------------------------------------------------- Table
TableOut(buf, i, header, body) ==
    LET s == renderIAL(i)
    IN  buf \o <<Tok("<texttable", s, "")>> \o header \o body
            \o <<T("</texttable>")>>

Table(header, body) ==
    /\ out' = TableOut(out, ial, header, body)
    /\ ial' = <<>>
    /\ last' = Call("Table", [level |-> 0])
    /\ hist' = Append(hist, "Table")
    /\ UNCHANGED <<flags, sectionLevel, docLevel, titleBlock>>

DoTable == Table(<<T("<ttcol")>>, <<T("<c>")>>)

\* ---------------------------------------------------------------- ListItem
\* The list flags are a set of flag names: flags&F != 0 is F \in flags.
\* ListItem closing the previous term whether or not the item begins the list.
ListItemOut_NoFirstFlag(buf, text, lflags) ==
    IF "LIST_TYPE_DEFINITION" \in lflags /\ "LIST_TYPE_TERM" \notin lflags
    THEN buf \o text
    ELSE IF "LIST_TYPE_TERM" \in lflags
    THEN buf \o <<T("</t>")>> \o <<T("<t hangText=")>> \o text \o <<T(">")>>
    ELSE buf \o <<T("<t>")>> \o text \o <<T("</t>")>>

ListItemOut(buf, text, lflags) ==
    IF "LIST_TYPE_DEFINITION" \in lflags /\ "LIST_TYPE_TERM" \notin lflags
    THEN buf \o text
    ELSE IF "LIST_TYPE_TERM" \in lflags
    THEN (IF "LIST_ITEM_BEGINNING_OF_LIST" \notin lflags
          THEN buf \o <<T("</t>")>> ELSE buf)
         \o <<T("<t hangText=")>> \o text \o <<T(">")>>
    ELSE buf \o <<T("<t>")>> \o text \o <<T("</t>")>>

\* What a list's content callback writes: the items it renders, in order.
RECURSIVE ItemWrites(_)
ItemWrites(items) ==
    IF items = <<>> THEN <<>>
    ELSE ListItemOut(<<>>, Body, Head(items)) \o ItemWrites(Tail(items))

\* -------------------------------------------------------------------- List
\* bytes.Buffer.Truncate(n): the first n writes are kept.
Truncate(buf, n) == SubSeq(buf, 1, n)

\* The opening tag of the list kind (the first switch).
ListOpen(s, lflags, start) ==
    IF "LIST_TYPE_ORDERED" \in lflags
    THEN (IF start <= 1 THEN Tok("<list style=numbers", s, "")
          ELSE Tok("<list style=numbers", s, ToString(start)))
    ELSE IF "LIST_TYPE_DEFINITION" \in lflags
    THEN Tok("<list style=hanging", s, "")
    ELSE Tok("<list style=symbols", s, "")

\* The closing tags of the list kind (the second switch).
ListClose(lflags) ==
    IF "LIST_TYPE_ORDERED" \in lflags THEN <<T("</list>")>>
    ELSE IF "LIST_TYPE_DEFINITION" \in lflags THEN <<T("</t>"), T("</list>")>>
    ELSE <<T("</list>")>>

\* List with the marker taken after the paragraph tag is written.
ListOut_LateMarker(buf, i, text, lflags, start) ==
    LET s == renderIAL(i)
        inside == "LIST_INSIDE_LIST" \in lflags
        wrapped == IF inside THEN buf ELSE buf \o <<T("<t>")>>
        marker == Len(wrapped)
        filled == wrapped \o <<ListOpen(s, lflags, start)>> \o text.writes
    IN  IF ~text.ret THEN Truncate(filled, marker)
        ELSE filled \o ListClose(lflags) \o (IF inside THEN <<>> ELSE <<T("</t>")>>)

ListOut(buf, i, text, lflags, start) ==
    LET marker == Len(buf)
        s == renderIAL(i)
        inside == "LIST_INSIDE_LIST" \in lflags
        opened == (IF inside THEN buf ELSE buf \o <<T("<t>")>>)
                  \o <<ListOpen(s, lflags, start)>>
        filled == opened \o text.writes
    IN  IF ~text.ret THEN Truncate(filled, marker)
        ELSE filled \o ListClose(lflags) \o (IF inside THEN <<>> ELSE <<T("</t>")>>)

List(text, lflags, start) ==
    /\ out' = ListOut(out, ial, text, lflags, start)
    /\ ial' = <<>>
    /\ last' = Call("List", [text |-> text, lflags |-> lflags, start |-> start])
    /\ hist' = Append(hist, "List")
    /\ UNCHANGED <<flags, sectionLevel, docLevel, titleBlock>>

\* --------------------------------------------------------------- Paragraph
\* Paragraph emptying the buffer when its content is rejected.
ParagraphOut_Reset(buf, text, lflags) ==
    LET def == "LIST_TYPE_DEFINITION" \in lflags
        filled == (IF def THEN buf ELSE buf \o <<T("<t>")>>) \o text.writes
    IN  IF ~text.ret THEN Truncate(filled, 0)
        ELSE IF def THEN filled ELSE filled \o <<T("</t>")>>

\* Paragraph leaves the attribute queue alone.
ParagraphOut(buf, text, lflags) ==
    LET marker == Len(buf)
        def == "LIST_TYPE_DEFINITION" \in lflags
        filled == (IF def THEN buf ELSE buf \o <<T("<t>")>>) \o text.writes
    IN  IF ~text.ret THEN Truncate(filled, marker)
        ELSE IF def THEN filled ELSE filled \o <<T("</t>")>>

Paragraph(text, lflags) ==
    /\ out' = ParagraphOut(out, text, lflags)
    /\ last' = Call("Paragraph", [text |-> text, lflags |-> lflags])
    /\ hist' = Append(hist, "Paragraph")
    /\ UNCHANGED <<flags, sectionLevel, docLevel, ial, titleBlock>>

\* ------------------------------------------------------------- CommentHtml
\* Text is a sequence of characters; Go's s[a:b] and bytes.Index.
Slice(s, a, b) == SubSeq(s, a + 1, b)

Index(text, pat) ==
    LET at == {i \in 0..(Len(text) - Len(pat)) : Slice(text, i, i + Len(pat)) = pat}
    IN  IF at = {} THEN -1 ELSE CHOOSE i \in at : \A j \in at : i <= j

\* out.Write of a run of characters: one token per character.
Bytes(s) == [k \in DOMAIN s |-> Tok("byte", <<>>, s[k])]

CommentEnd == <<"-", "-", ">">>
CommentStart == <<"<", "!", "-", "-">>

\* The loop `for i := 0; i < l; i++` with l = min(len(text), 20): the index
\* at which it breaks, -1 when it runs to its end.
ColonIndex(text) ==
    LET l == IF Len(text) > SourceWindow THEN SourceWindow ELSE Len(text)
        at == {i \in 0..(l - 1) : text[i + 1] = ":"}
    IN  IF at = {} THEN -1 ELSE CHOOSE i \in at : \A j \in at : i <= j

CommentHtmlOut(buf, text) ==
    LET i == Index(text, CommentEnd)
        cut == IF i > 0 THEN Slice(text, 0, i) ELSE text
        body == Slice(cut, 4, Len(cut))
        c == ColonIndex(body)
        source == IF c >= 0 THEN Slice(body, 0, c) ELSE <<>>
        rest == IF c >= 0 THEN Slice(body, c + 1, Len(body)) ELSE body
    IN  buf
        \o (IF Len(source) # 0
            THEN <<T("<t><cref source=\"")>>
                 \o Bytes(IF source[1] = " " THEN Tail(source) ELSE source)
                 \o <<T("\">")>>
            ELSE <<T("<t><cref>")>>)
        \o Bytes(rest)
        \o <<T("</cref></t>")>>

\* payload is what the caller put between the comment's opener and its end.
CommentHtml(text, payload) ==
    /\ out' = CommentHtmlOut(out, text)
    /\ last' = Call("CommentHtml", [bytes |-> text, payload |-> payload])
    /\ hist' = Append(hist, "CommentHtml")
    /\ UNCHANGED <<flags, sectionLevel, docLevel, ial, titleBlock>>

\* ---------------------------------------------------------- inputs, specs
\* References with no citation, or with one.
DoReferencesFew ==
    \E m \in CitationMaps({"RFC2119"}) : \E o \in Orders(DOMAIN m) :
        m \in [DOMAIN m -> {"i", "n"} \X {""}] /\ References(AsCitations(m), o, o)

\* References with every citation map, ranged in every order.
DoReferences ==
    \E m \in CitationMaps(CiteKeys) : \E ordI, ordN \in Orders(DOMAIN m) :
        References(AsCitations(m), ordI, ordN)

ListFlagSets == SUBSET {"LIST_TYPE_ORDERED", "LIST_TYPE_DEFINITION", "LIST_INSIDE_LIST"}
Starts == {1, 3}

\* Content callbacks: they write nothing or some items, and return either way.
ItemSeqs == {<<>>, <<{}, {}>>}
ListTexts == {Callback(ItemWrites(items), ret) : items \in ItemSeqs, ret \in BOOLEAN}
ParagraphTexts == {Callback(w, ret) : w \in {<<>>, Body}, ret \in BOOLEAN}

DoList == \E text \in ListTexts, lflags \in ListFlagSets, start \in Starts :
              List(text, lflags, start)

DoListFew == \E ret \in BOOLEAN, lflags \in {{}, {"LIST_TYPE_ORDERED"}} :
                 List(Callback(ItemWrites(<<{}>>), ret), lflags, 1)

DoParagraph == \E text \in ParagraphTexts, lflags \in {{}, {"LIST_TYPE_DEFINITION"}} :
                   Paragraph(text, lflags)

\* Comment payloads: an optional leading space, a run of plain characters,
\* an optional colon, and a tail that may hold a second colon; and the
\* payload " rfc1234: some note text".
Fill(k) == [i \in 1..k |-> "a"]

NotePayload ==
    <<" ", "r", "f", "c", "1", "2", "3", "4", ":", " ", "s", "o", "m", "e", " ",
      "n", "o", "t", "e", " ", "t", "e", "x", "t">>

Payloads ==
    {lead \o Fill(k) \o mid \o tail :
        lead \in {<<>>, <<" ">>}, k \in 0..MaxFill,
        mid \in {<<>>, <<":">>}, tail \in {<<>>, <<" ", "n">>, <<":", "n">>}}
    \cup {NotePayload}

\* The comment as the parser hands it over: opener, payload, end, and the
\* line end that may follow.
DoCommentHtml ==
    \E p \in Payloads, eol \in {<<>>, <<"\n">>} :
        CommentHtml(CommentStart \o p \o CommentEnd \o eol, p)

\* A few comments, for renders that mix every renderer.
DoCommentHtmlFew ==
    \E p \in {<<>>, <<"a", ":", "n">>} : CommentHtml(CommentStart \o p \o CommentEnd, p)


\* The items of a definition list: every flag combination ListItem tests.
ItemFlagSets ==
    SUBSET {"LIST_TYPE_DEFINITION", "LIST_TYPE_TERM", "LIST_ITEM_BEGINNING_OF_LIST"}

ItemLists == UNION {[1..n -> ItemFlagSets] : n \in 0..MaxItems}

\* The content callback of a list that renders these items.
ItemCallback(items, ret) == [writes |-> ItemWrites(items), ret |-> ret, items |-> items]

\* A definition list (the flag that selects the hanging style), nested or not.
DoDefinitionList ==
    \E items \in ItemLists, ret \in BOOLEAN,
       lflags \in {{"LIST_TYPE_DEFINITION"}, {"LIST_TYPE_DEFINITION", "LIST_INSIDE_LIST"}} :
        List(ItemCallback(items, ret), lflags, 1)

\* The structure of a document: headings, phases, references, the footer.
Next ==
    \/ Len(hist) < MaxCalls /\ DoTitleBlockTOML
    \/ Len(hist) < MaxCalls /\ DoHeader
    \/ Len(hist) < MaxCalls /\ DoDocumentMatter
    \/ Len(hist) < MaxCalls /\ DoReferencesFew
    \/ Len(hist) < MaxCalls /\ DoDocumentFooter

Spec == Init /\ [][Next]_vars

\* A document rendered with or without the standalone flag, wrappers included.
NextEmbed ==
    \/ Len(hist) < MaxCalls /\ DoDocumentHeader
    \/ Len(hist) < MaxCalls /\ DoTitleBlockTOML
    \/ Len(hist) < MaxCalls /\ DoHeader
    \/ Len(hist) < MaxCalls /\ DoCitation
    \/ Len(hist) < MaxCalls /\ DoDocumentMatter
    \/ Len(hist) < MaxCalls /\ DoReferencesFew
    \/ Len(hist) < MaxCalls /\ DoDocumentFooter

SpecEmbed == Init /\ [][NextEmbed]_vars

\* The block renderers and the attribute queue.
NextBlock ==
    \/ Len(hist) < MaxCalls /\ DoSetIAL
    \/ Len(hist) < MaxCalls /\ DoParagraph
    \/ Len(hist) < MaxCalls /\ DoListFew
    \/ Len(hist) < MaxCalls /\ DoTable
    \/ Len(hist) < MaxCalls /\ DoBlockQuote
    \/ Len(hist) < MaxCalls /\ DoBlockCode
    \/ Len(hist) < MaxCalls /\ DoAbstract
    \/ Len(hist) < MaxCalls /\ DoHeader

SpecBlock == Init /\ [][NextBlock]_vars

\* Lists and paragraphs with every flag combination.
NextList ==
    \/ Len(hist) < MaxWideCalls /\ DoSetIAL
    \/ Len(hist) < MaxWideCalls /\ DoBlockQuote
    \/ Len(hist) < MaxWideCalls /\ DoList
    \/ Len(hist) < MaxWideCalls /\ DoParagraph

SpecList == Init /\ [][NextList]_vars

\* References with every citation map.
NextRef ==
    \/ Len(hist) < MaxWideCalls /\ DoHeader
    \/ Len(hist) < MaxWideCalls /\ DoDocumentMatter
    \/ Len(hist) < MaxWideCalls /\ DoReferences

SpecRef == Init /\ [][NextRef]_vars

\* An outline: headings, then the end of the document.
NextOutline ==
    \/ Len(hist) < MaxOutlineCalls /\ DoHeader
    \/ Len(hist) < MaxOutlineCalls /\ DoDocumentFooter

SpecOutline == Init /\ [][NextOutline]_vars

\* One HTML comment.
NextComment ==
    \/ Len(hist) < MaxCommentCalls /\ DoCommentHtml

SpecComment == Init /\ [][NextComment]_vars

\* Every renderer, in any order.
NextAll ==
    \/ Len(hist) < MaxAllCalls /\ DoDocumentHeader
    \/ Len(hist) < MaxAllCalls /\ DoTitleBlockTOML
    \/ Len(hist) < MaxAllCalls /\ DoHeader
    \/ Len(hist) < MaxAllCalls /\ DoCitation
    \/ Len(hist) < MaxAllCalls /\ DoDocumentMatter
    \/ Len(hist) < MaxAllCalls /\ DoReferencesFew
    \/ Len(hist) < MaxAllCalls /\ DoDocumentFooter
    \/ Len(hist) < MaxAllCalls /\ DoSetIAL
    \/ Len(hist) < MaxAllCalls /\ DoParagraph
    \/ Len(hist) < MaxAllCalls /\ DoListFew
    \/ Len(hist) < MaxAllCalls /\ DoTable
    \/ Len(hist) < MaxAllCalls /\ DoBlockQuote
    \/ Len(hist) < MaxAllCalls /\ DoBlockCode
    \/ Len(hist) < MaxAllCalls /\ DoAbstract
    \/ Len(hist) < MaxAllCalls /\ DoCommentHtmlFew

SpecAll == Init /\ [][NextAll]_vars

\* One definition list, after other blocks.
NextDefinitionList ==
    \/ Len(hist) < MaxBlocksBefore /\ DoBlockQuote
    \/ (\A k \in DOMAIN hist : hist[k] # "List") /\ DoDefinitionList

SpecDefinitionList == Init /\ [][NextDefinitionList]_vars

\* ------------------------------------------------------------------ claims
\* What the last call appended to the buffer (for a call that truncated
\* nothing).
Written == SubSeq(out, Len(last.out0) + 1, Len(out))

Range(f) == {f[k] : k \in DOMAIN f}

Prefix(buf, n) == SubSeq(buf, 1, n)

Opens(buf) == CountTag(buf, "<section")
Closes(buf) == CountTag(buf, "</section>")

\* The footer ran its flush: first is set and the renderer is standalone.
FooterFlushed == last.op = "DocumentFooter" /\ last.first /\ Standalone(flags)

OnlyHeadersBefore == \A k \in 1..(Len(hist) - 1) : hist[k] = "Header"

\* C1: nesting balance.  After Header calls with any levels >= 1 and the
\* flush of DocumentFooter, the section open markers written equal the
\* section close markers written, and no prefix of the output holds more
\* close markers than open markers.
C1_NestingBalance ==
    (FooterFlushed /\ OnlyHeadersBefore) =>
        /\ Opens(out) = Closes(out)
        /\ \A n \in 0..Len(out) : Closes(Prefix(out, n)) <= Opens(Prefix(out, n))

\* C2: section-depth invariant.  In every reachable state the section
\* containers open in the output (open markers minus close markers) are as
\* many as sectionLevel.
C2_SectionDepthInvariant == Opens(out) - Closes(out) = sectionLevel

PhaseOpen == {"<front>", "<middle>", "<back>"}
PhaseRank(tag) == CASE tag = "<front>" -> 1 [] tag = "<middle>" -> 2 [] OTHER -> 3

\* C3: phase containers in the output.  The opening markers of front, middle
\* and back are each written at most once, and in the order front, middle,
\* back.
C3_PhaseContainersOnce ==
    /\ \A tag \in PhaseOpen : CountTag(out, tag) <= 1
    /\ \A i, j \in DOMAIN out :
          (i < j /\ out[i].tag \in PhaseOpen /\ out[j].tag \in PhaseOpen)
              => PhaseRank(out[i].tag) < PhaseRank(out[j].tag)

\* C4: monotonic phase state.  A new renderer is in the front phase, and no
\* call lowers docLevel.
C4_MonotonicPhase ==
    /\ last.op = "new" => docLevel = DOC_FRONT_MATTER
    /\ docLevel >= last.dl0

BlockOps == {"Paragraph", "List", "Table", "BlockQuote", "BlockCode", "Abstract", "Header"}

\* The last call was a block renderer and its block stayed in the output
\* (a list or paragraph whose callback returned false is rolled back).
BlockEmitted ==
    /\ last.op \in BlockOps
    /\ last.op \in {"List", "Paragraph"} => last.text.ret

\* The SetIAL calls made in a row right before the last call.
RECURSIVE SetIALRun(_)
SetIALRun(k) == IF k >= 1 /\ hist[k] = "SetIAL" THEN 1 + SetIALRun(k - 1) ELSE 0

\* The attribute sets enqueued immediately before the last call.
JustEnqueued ==
    LET n == Cardinality({k \in DOMAIN hist : hist[k] = "SetIAL"})
    IN  (n - SetIALRun(Len(hist) - 1) + 1)..n

\* The attribute sets rendered into the tags of buf.
AttrsIn(buf) == UNION {Range(buf[k].attrs) : k \in DOMAIN buf}

\* C5: attribute attach exactly-once.  The tags a block renderer writes carry
\* the attribute sets enqueued immediately before its call and no others
\* (none when nothing was enqueued), so a set never shows on a later block.
C5_AttachExactlyOnce == BlockEmitted => AttrsIn(Written) = JustEnqueued

\* C6: drain by every block renderer.  Right after any block renderer
\* returns, the pending attribute queue is empty.
C6_DrainedAfterBlock == last.op \in BlockOps => ial = <<>>

\* C7: empty-block rollback.  A List or Paragraph call whose content callback
\* returns false leaves the buffer as it was before the call, in length and
\* in content, whatever the flags, the start value and the callback's writes.
C7_RollbackRestoresBuffer ==
    (last.op \in {"List", "Paragraph"} /\ ~last.text.ret) =>
        /\ Len(out) = Len(last.out0)
        /\ out = last.out0

\* A definition list given attributes rolled back after its callback wrote
\* items to a buffer that already held a block.
C7_Witness ==
    /\ last.op = "List"
    /\ ~last.text.ret
    /\ last.text.writes # <<>>
    /\ last.out0 # <<>>
    /\ last.ial0 # <<>>
    /\ last.lflags = {"LIST_TYPE_DEFINITION"}
    /\ last.start = 3

IncludeTag == "<?rfc include"

\* The include markers of buf are, file name by file name, as many as the
\* citations of c with that file name: one marker per citation.
OneIncludePerCitation(buf, c) ==
    LET files == {IncludeFile(c[k]) : k \in DOMAIN c}
    IN  /\ \A i \in DOMAIN buf : buf[i].tag = IncludeTag => buf[i].arg \in files
        /\ \A f \in files :
              Cardinality({i \in DOMAIN buf : buf[i].tag = IncludeTag /\ buf[i].arg = f})
                  = Cardinality({k \in DOMAIN c : IncludeFile(c[k]) = f})

\* C8 as stated: whatever the flags, References writes one include marker
\* per recorded citation, and no references container for an empty map.
C8_CitationGroupingComplete ==
    last.op = "References" =>
        /\ OneIncludePerCitation(Written, last.cits)
        /\ DOMAIN last.cits = {} => CountTag(Written, "<references") = 0

\* C8, amended: in standalone mode References writes one include marker per
\* recorded citation, and no references container for an empty map.
C8_CitationGroupingStandalone ==
    (last.op = "References" /\ Standalone(flags)) =>
        /\ OneIncludePerCitation(Written, last.cits)
        /\ DOMAIN last.cits = {} => CountTag(Written, "<references") = 0

\* References in standalone mode with an informative and a normative
\* citation, one of them with a file name of its own, after a heading.
C8_Witness ==
    /\ last.op = "References"
    /\ Standalone(flags)
    /\ last.sl0 > 0
    /\ DOMAIN last.cits = CiteKeys
    /\ last.cits["RFC2119"].typ = "n" /\ last.cits["RFC2119"].filename = ""
    /\ last.cits["I-D.foo"].typ = "i" /\ last.cits["I-D.foo"].filename # ""
    /\ CountTag(Written, IncludeTag) = 2

\* The tags of the document-level wrappers.
WrapperTags ==
    {"<?xml", "<!DOCTYPE rfc", "<rfc", "</rfc>", "<front>", "</front>",
     "<middle>", "</middle>", "<back>", "</back>", "<title", "</title>",
     "<author", "</author>", "<organization>", "<address>", "<email>",
     "</address>", "<date", "<area>", "<workgroup>", "<keyword>",
     "<references", "</references>", IncludeTag}

\* C9: standalone mode off.  Without the standalone flag no call writes a
\* document-level wrapper tag, and DocumentHeader, DocumentFooter,
\* TitleBlockTOML and References write nothing.
C9_NoWrapperWhenEmbedded ==
    ~Standalone(flags) =>
        /\ \A i \in DOMAIN out : out[i].tag \notin WrapperTags
        /\ last.op \in {"DocumentHeader", "DocumentFooter", "TitleBlockTOML", "References"}
              => out = last.out0

\* The last call was a matter transition or the end of the document.
AtBoundary ==
    \/ last.op = "DocumentMatter"
    \/ last.op = "References" /\ Standalone(flags)
    \/ last.op = "DocumentFooter" /\ last.first

\* C10: section flush at boundaries.  A matter transition and the end of the
\* document write as many section close markers as sectionLevel was before
\* the call, and leave sectionLevel 0.
C10_SectionFlushAtBoundaries ==
    AtBoundary => (Closes(Written) = last.sl0 /\ sectionLevel = 0)

\* The place of the first token of buf with this tag, 0 when there is none.
FirstTag(buf, tag) ==
    IF \E i \in DOMAIN buf : buf[i].tag = tag
    THEN CHOOSE i \in DOMAIN buf :
             buf[i].tag = tag /\ \A j \in 1..(i - 1) : buf[j].tag # tag
    ELSE 0

AllHeaders == \A k \in DOMAIN hist : hist[k] = "Header"

\* C11: heading rule.  A Header call at level >= 1 made at depth d writes
\* d - level + 1 close markers when level <= d and none otherwise, then one
\* open marker, and sets sectionLevel to level; after headings at levels
\* 1, 2, 2, 1 one container is open, and the flush at the end of the
\* document writes one close marker.
C11_HeadingRule ==
    /\ last.op = "Header" =>
          /\ Closes(Written) = (IF last.level <= last.sl0
                                THEN last.sl0 - last.level + 1 ELSE 0)
          /\ Opens(Written) = 1
          /\ Closes(Prefix(Written, FirstTag(Written, "<section"))) = Closes(Written)
          /\ sectionLevel = last.level
    /\ (AllHeaders /\ last.levels = <<1, 2, 2, 1>>) => Opens(out) - Closes(out) = 1
    /\ (FooterFlushed /\ OnlyHeadersBefore /\ last.levels = <<1, 2, 2, 1>>)
          => Closes(Written) = 1

\* The document of the scenario, flushed by the footer.
C11_Witness ==
    /\ FooterFlushed
    /\ OnlyHeadersBefore
    /\ last.levels = <<1, 2, 2, 1>>
    /\ last.sl0 = 1
    /\ Opens(out) = 4

PhaseTags == {"<front>", "</front>", "<middle>", "</middle>", "<back>", "</back>"}

\* The phase markers among the tokens of buf, in order.
RECURSIVE PhaseMarkersOf(_)
PhaseMarkersOf(buf) ==
    IF buf = <<>> THEN <<>>
    ELSE (IF Head(buf).tag \in PhaseTags THEN <<Head(buf).tag>> ELSE <<>>)
         \o PhaseMarkersOf(Tail(buf))

PhaseCloseTag(dl) ==
    CASE dl = DOC_FRONT_MATTER -> "</front>"
      [] dl = DOC_MAIN_MATTER -> "</middle>"
      [] OTHER -> "</back>"

PhaseOpenTag(dl) ==
    CASE dl = DOC_FRONT_MATTER -> "<front>"
      [] dl = DOC_MAIN_MATTER -> "<middle>"
      [] OTHER -> "<back>"

\* The last call asked for a later phase than the current one.
ForwardTransition ==
    \/ last.op = "DocumentMatter" /\ last.matter > last.dl0
    \/ last.op = "References" /\ Standalone(flags) /\ last.dl0 < DOC_BACK_MATTER

\* The last call asked for the phase that was already current.
SamePhaseRequest ==
    \/ last.op = "DocumentMatter" /\ last.matter = last.dl0
    \/ last.op = "References" /\ Standalone(flags) /\ last.dl0 = DOC_BACK_MATTER

\* C12: transition markup.  A transition to a later phase, by DocumentMatter
\* or by References, writes the closing marker of the phase that was current
\* and the opening marker of the new phase, and no other phase marker.
C12_TransitionMarkup ==
    ForwardTransition =>
        PhaseMarkersOf(Written) = <<PhaseCloseTag(last.dl0), PhaseOpenTag(docLevel)>>

\* C13: same-phase transition is a no-op.  Asking for the phase already
\* current writes the pending section close markers and nothing else, and
\* leaves docLevel as it was.
C13_SamePhaseNoOp ==
    SamePhaseRequest =>
        /\ Written = Repeat(SectionClose, last.sl0)
        /\ docLevel = last.dl0

NoTransitionYet ==
    \A k \in DOMAIN hist : hist[k] \notin {"DocumentMatter", "References"}

\* C14: footer in the initial phase.  In standalone mode, when neither
\* DocumentMatter nor References was called, DocumentFooter(first = true)
\* writes, after the section close markers, the closing marker of front and
\* then the end of the document root: no closing marker of middle or back.
C14_FooterInFrontPhase ==
    (FooterFlushed /\ NoTransitionYet) =>
        /\ Written = Repeat(SectionClose, last.sl0) \o <<T("</front>"), T("</rfc>")>>
        /\ PhaseMarkersOf(Written) = <<"</front>">>

\* The footer of a document with a title block and two open sections that
\* never left the front matter.
C14_Witness ==
    /\ FooterFlushed
    /\ NoTransitionYet
    /\ ~titleBlock.nil
    /\ last.sl0 = 2
    /\ ~last.skipped

\* The tokens of buf from position from on up to, not including, the first
\* token with this tag.
RECURSIVE UpTo(_, _, _)
UpTo(buf, from, tag) ==
    IF from > Len(buf) \/ buf[from].tag = tag THEN <<>>
    ELSE <<buf[from]>> \o UpTo(buf, from + 1, tag)

\* The positions of the references containers with this title.
ContainersOf(buf, title) ==
    {i \in DOMAIN buf : buf[i].tag = "<references" /\ buf[i].arg = title}

\* The content of the container opened at position i.
ContainerBody(buf, i) == UpTo(buf, i + 1, "</references>")

\* The file a citation's inclusion marker names: its own file name, the
\* derived one when it has none.
NamedFile(c) == IF c.filename # "" THEN c.filename ELSE referenceFile(c)

\* body holds inclusion markers only, one per citation of this kind, each
\* naming the citation's file.
HoldsKind(body, cits, typ) ==
    LET ks == {k \in DOMAIN cits : cits[k].typ = typ}
        files == {NamedFile(cits[k]) : k \in ks}
    IN  /\ \A i \in DOMAIN body : body[i].tag = IncludeTag /\ body[i].arg \in files
        /\ Len(body) = Cardinality(ks)
        /\ \A f \in files :
              Cardinality({i \in DOMAIN body : body[i].arg = f})
                  = Cardinality({k \in ks : NamedFile(cits[k]) = f})

GroupOf(buf, cits, title, typ) ==
    LET at == ContainersOf(buf, title)
    IN  IF \E k \in DOMAIN cits : cits[k].typ = typ
        THEN /\ Cardinality(at) = 1
             /\ \A i \in at : HoldsKind(ContainerBody(buf, i), cits, typ)
        ELSE at = {}

\* C15: reference flush structure.  In standalone mode References leaves the
\* document in the back matter with no section open, and writes one
\* references container per non-empty group and none for an empty one, the
\* informative container first, each holding one inclusion marker per citation
\* of its kind that names the citation's own file name when it has one and
\* the derived name only when it has none.
C15_ReferenceFlushStructure ==
    (last.op = "References" /\ Standalone(flags)) =>
        /\ docLevel = DOC_BACK_MATTER
        /\ sectionLevel = 0
        /\ GroupOf(Written, last.cits, "Informative References", "i")
        /\ GroupOf(Written, last.cits, "Normative References", "n")
        /\ CountTag(Written, "<references") = CountTag(Written, "</references>")
        /\ CountTag(Written, "<references")
              = Cardinality({typ \in {"i", "n"} : \E k \in DOMAIN last.cits : last.cits[k].typ = typ})
        /\ \A i \in ContainersOf(Written, "Informative References") :
           \A n \in ContainersOf(Written, "Normative References") : i < n

\* References in standalone mode from the main matter with a section open:
\* an informative citation with its own file name and a normative one without.
C15_Witness ==
    /\ last.op = "References"
    /\ Standalone(flags)
    /\ last.dl0 = DOC_MAIN_MATTER
    /\ last.sl0 > 0
    /\ DOMAIN last.cits = CiteKeys
    /\ last.cits["RFC2119"].typ = "i" /\ last.cits["RFC2119"].filename # ""
    /\ last.cits["I-D.foo"].typ = "n" /\ last.cits["I-D.foo"].filename = ""
    /\ CountTag(Written, "<references") = 2

FlushOps == {"DocumentMatter", "References", "DocumentFooter"}

\* C16: flush idempotence.  Once sectionLevel is 0, a further DocumentMatter,
\* References or DocumentFooter with no Header in between writes no section
\* close marker and leaves sectionLevel 0; and sectionLevel is negative in no
\* reachable state (heading levels are 1 or more).
C16_FlushIdempotent ==
    /\ (last.op \in FlushOps /\ last.sl0 = 0) =>
           /\ Closes(Written) = 0
           /\ sectionLevel = 0
    /\ sectionLevel >= 0

\* A flush right after the flush that closed two sections.
C16_Witness ==
    /\ Len(hist) >= 3
    /\ last.op \in FlushOps
    /\ hist[Len(hist) - 1] \in FlushOps
    /\ last.sl0 = 0
    /\ Closes(last.out0) = 2
    /\ Closes(Written) = 0

\* The last call closed every open section: DocumentMatter always does,
\* References and DocumentFooter(first) do in standalone mode.
Flushed ==
    \/ last.op = "DocumentMatter"
    \/ last.op = "References" /\ Standalone(flags)
    \/ FooterFlushed

\* C19: well-formed outline invariant.  When every Header call so far had a
\* level of at least 1 and at most one more than sectionLevel at the call,
\* the section open markers minus the close markers in the output equal
\* sectionLevel after every call, and after a flush in standalone mode the
\* open and close markers balance.
C19_WellFormedOutline ==
    ~last.skipped =>
        /\ Opens(out) - Closes(out) = sectionLevel
        /\ (Flushed /\ Standalone(flags)) => Opens(out) = Closes(out)
        /\ \A n \in 0..Len(out) : Closes(Prefix(out, n)) <= Opens(Prefix(out, n))

\* The outline 1, 2, 1 flushed by the footer of a standalone document.
C19_Witness ==
    /\ ~last.skipped
    /\ last.levels = <<1, 2, 1>>
    /\ FooterFlushed
    /\ last.sl0 = 1
    /\ Opens(out) = 3
    /\ Closes(out) = 3

\* The first colon of p among its first SourceWindow characters.
EarlyColons(p) == {i \in 0..(Len(p) - 1) : i < SourceWindow /\ p[i + 1] = ":"}
FirstColon(p) == CHOOSE i \in EarlyColons(p) : \A j \in EarlyColons(p) : i <= j

StripLeadingSpace(s) == IF s # <<>> /\ s[1] = " " THEN Tail(s) ELSE s

\* An annotation with a source attribute, and one without.
Labelled(source, text) ==
    <<T("<t><cref source=\"")>> \o Bytes(source) \o <<T("\">")>>
        \o Bytes(text) \o <<T("</cref></t>")>>
Unlabelled(text) == <<T("<t><cref>")>> \o Bytes(text) \o <<T("</cref></t>")>>

\* C18 as stated: with p the payload of the comment, when the first colon
\* among the first 20 characters of p is at index i, the source attribute is
\* p[0..i) less one leading space and the annotation text is p[i+1..); when
\* there is no colon there, no source attribute is written and all of p is
\* the annotation text.
C18_AnnotationSourceAsStated ==
    last.op = "CommentHtml" =>
        LET p == last.payload
        IN  Written =
              IF EarlyColons(p) # {}
              THEN Labelled(StripLeadingSpace(Slice(p, 0, FirstColon(p))),
                            Slice(p, FirstColon(p) + 1, Len(p)))
              ELSE Unlabelled(p)

\* The statement holds for every payload whose first colon in the window is
\* not its first character.
C18_ExtractionPastFirstCharacter ==
    (last.op = "CommentHtml" /\ 0 \notin EarlyColons(last.payload)) =>
        LET p == last.payload
        IN  Written =
              IF EarlyColons(p) # {}
              THEN Labelled(StripLeadingSpace(Slice(p, 0, FirstColon(p))),
                            Slice(p, FirstColon(p) + 1, Len(p)))
              ELSE Unlabelled(p)

\* The comment " rfc1234: some note text": source "rfc1234", text
\* " some note text".
C18_NoteScenario ==
    /\ last.op = "CommentHtml"
    /\ last.payload = NotePayload
    /\ Written = Labelled(<<"r", "f", "c", "1", "2", "3", "4">>,
                          <<" ", "s", "o", "m", "e", " ", "n", "o", "t", "e", " ",
                            "t", "e", "x", "t">>)

\* The last call was a List or a Paragraph whose content callback returned
\* false.
RolledBack == last.op \in {"List", "Paragraph"} /\ ~last.text.ret

\* C17: append-only output.  After every renderer call the buffer as it was
\* before the call is a prefix of the buffer after it; the rollback of List
\* and of Paragraph cuts the buffer to its length at the start of that call,
\* not below.
C17_AppendOnly ==
    /\ Len(out) >= Len(last.out0)
    /\ Prefix(out, Len(last.out0)) = last.out0
    /\ RolledBack => out = last.out0

\* A paragraph that wrote content and was rolled back, after two other calls
\* had written to the buffer.
C17_Witness ==
    /\ last.op = "Paragraph"
    /\ ~last.text.ret
    /\ last.text.writes # <<>>
    /\ Len(hist) = 3
    /\ Len(last.out0) >= 2
    /\ out = last.out0

\* The element a tag opens or closes ("" for a token that does neither).
Opened(tok) ==
    CASE tok.tag \in {"<t>", "<t hangText="} -> "t"
      [] tok.tag \in {"<list style=hanging", "<list style=numbers", "<list style=symbols"} -> "list"
      [] OTHER -> ""

Closed(tok) ==
    CASE tok.tag = "</t>" -> "t"
      [] tok.tag = "</list>" -> "list"
      [] OTHER -> ""

\* Matching the tags of buf from position n with the elements in stack open:
\* the position of the first close tag that does not close the innermost open
\* element (0 when there is none) and the elements left open.
RECURSIVE Match(_, _, _)
Match(buf, n, stack) ==
    IF n > Len(buf) THEN [unmatched |-> 0, open |-> stack]
    ELSE IF Opened(buf[n]) # "" THEN Match(buf, n + 1, Append(stack, Opened(buf[n])))
    ELSE IF Closed(buf[n]) = "" THEN Match(buf, n + 1, stack)
    ELSE IF stack # <<>> /\ stack[Len(stack)] = Closed(buf[n])
    THEN Match(buf, n + 1, SubSeq(stack, 1, Len(stack) - 1))
    ELSE [unmatched |-> n, open |-> stack]

Balanced(buf) == Match(buf, 1, <<>>) = [unmatched |-> 0, open |-> <<>>]

TermItems(items) == {k \in DOMAIN items : "LIST_TYPE_TERM" \in items[k]}

\* There is a term item, and of the term items the first, and only the first,
\* carries the beginning-of-list flag.
FirstTermBegins(items) ==
    /\ TermItems(items) # {}
    /\ \A k \in TermItems(items) :
          ("LIST_ITEM_BEGINNING_OF_LIST" \in items[k]) <=> (\A j \in TermItems(items) : k <= j)

DefinitionListDone ==
    /\ last.op = "List"
    /\ "LIST_TYPE_DEFINITION" \in last.lflags
    /\ "LIST_TYPE_ORDERED" \notin last.lflags
    /\ last.text.ret

\* The position in Written of the '</t>' with which List closes a definition
\* list.
ListCloseAt ==
    IF "LIST_INSIDE_LIST" \in last.lflags THEN Len(Written) - 1 ELSE Len(Written) - 2

\* C20: definition-list tag balance.  For a definition list whose content
\* callback rendered its items and returned true, the paragraph tags and
\* their close tags written by List and ListItem match one another exactly
\* when the items hold a term item and the first term item, and only it among
\* the term items, carries the beginning-of-list flag; with items but no term
\* item, the '</t>' that List writes at the end of the list is unmatched.
C20_DefinitionListBalance ==
    DefinitionListDone =>
        /\ Balanced(Written) <=> FirstTermBegins(last.text.items)
        /\ (last.text.items # <<>> /\ TermItems(last.text.items) = {}) =>
              /\ Match(Written, 1, <<>>).unmatched = ListCloseAt
              /\ Written[ListCloseAt].tag = "</t>"

\* A definition list of two terms, each with its definition, the first term
\* beginning the list: balanced.
C20_Witness ==
    /\ DefinitionListDone
    /\ "LIST_INSIDE_LIST" \notin last.lflags
    /\ last.out0 # <<>>
    /\ last.text.items = <<{"LIST_TYPE_DEFINITION", "LIST_TYPE_TERM", "LIST_ITEM_BEGINNING_OF_LIST"},
                           {"LIST_TYPE_DEFINITION"},
                           {"LIST_TYPE_DEFINITION", "LIST_TYPE_TERM"}>>
    /\ Balanced(Written)
    /\ CountTag(Written, "</t>") = 3

====
